---- MODULE Spec2Model ----
(***************************************************************************)
(* Model of olive/passes/openvino/optimum_intel.py: the pass              *)
(* OpenVINOOptimumConversion (validate_config, _run_for_config) and the    *)
(* helpers prep_wc_config, prep_q_config,                                  *)
(* no_compression_parameter_provided, no_quantization_parameter_provided.  *)
(*                                                                         *)
(* Python values are modelled as strings ("None", "True", "False", "0.8",  *)
(* "int4", ...).  A Python dict is a function whose DOMAIN is the set of   *)
(* keys that are present, so that an absent key and a key set to None are  *)
(* different dictionaries, as they are in the program.  An optional dict   *)
(* (None or a dict) is a record [none, d].                                 *)
(***************************************************************************)
EXTENDS Integers, Sequences, FiniteSets, TLC

VARIABLES
    config,     \* the pass configuration: components, extra_args, ov_quant_config
    env,        \* what the libraries and the file system answer for this model
    pc,         \* the position in validate_config / _run_for_config
    lib_name,   \* _run_for_config's lib_name
    ov_config,  \* _run_for_config's ov_config
    strategy,   \* the export strategy that ran, and the model class it used
    outdir,     \* the files of output_model_path
    result      \* what the call returned or raised

vars == <<config, env, pc, lib_name, ov_config, strategy, outdir, result>>

\* ------------------------------------------------------------- bounds

\* the largest number of keys of an ov_quant_config of the input set
MaxKeys == 3

\* the longest components list of the input set
MaxComponents == 2

\* ------------------------------------------------------------- Python values

None == "None"

EmptyDict == [k \in {} |-> None]

\* dict.get(key): the value, None when the key is absent
Get(d, k) == IF k \in DOMAIN d THEN d[k] ELSE None

\* dict.get(key, default)
GetD(d, k, default) == IF k \in DOMAIN d THEN d[k] ELSE default

\* Python truthiness of a scalar value: None, False, 0, 0.0 and "" are falsy
Truthy(v) == v \notin {"None", "False", "0", "0.0", ""}

\* an optional dict: None, or a dict
NoDict == [none |-> TRUE, d |-> EmptyDict]

SomeDict(d) == [none |-> FALSE, d |-> d]

\* truthiness of an optional dict: None and {} are falsy
TruthyDict(o) == ~o.none /\ DOMAIN o.d # {}

\* ------------------------------------------------------------- validate_config

allowed_libraries == {"transformers", "diffusers", "timm", "sentence_transformers", "open_clip"}

allowed_frameworks == {"pt", "tf"}

allowed_weight_formats == {"fp32", "fp16", "int8", "int4", "mxfp4", "nf4"}

allowed_quant_modes ==
    {"int8", "f8e4m3", "f8e5m2", "nf4_f8e4m3", "nf4_f8e5m2", "int4_f8e4m3", "int4_f8e5m2"}

allowed_backup_precisions == {"none", "int8_sym", "int8_asym"}

\* the check without its  is not None  test: an unset key is looked up in the allow-list
Disallowed_NoNoneTest(o, k, allowed) ==
    /\ TruthyDict(o)
    /\ Get(o.d, k) \notin allowed

\* one of the five checks: the dict is truthy, the key's value is not None
\* and not in the allow-list
Disallowed(o, k, allowed) ==
    /\ TruthyDict(o)
    /\ Get(o.d, k) # None
    /\ Get(o.d, k) \notin allowed

\* the result of validate_config when the base class's validation passes
validate_config(c) ==
    IF Disallowed(c.extra_args, "library", allowed_libraries) THEN FALSE
    ELSE IF Disallowed(c.extra_args, "framework", allowed_frameworks) THEN FALSE
    ELSE IF Disallowed(c.ov_quant_config, "weight_format", allowed_weight_formats) THEN FALSE
    ELSE IF Disallowed(c.ov_quant_config, "quant_mode", allowed_quant_modes) THEN FALSE
    ELSE IF Disallowed(c.ov_quant_config, "backup_precision", allowed_backup_precisions) THEN FALSE
    ELSE TRUE

\* ------------------------------------------------------------- helpers

compression_parameters ==
    {"ratio", "group_size", "sym", "all_layers", "dataset", "num_samples", "awq",
     "scale_estimation", "gptq", "lora_correction", "sensitivity_metric", "backup_precision"}

quantization_parameters == {"sym", "dataset", "num_samples", "smooth_quant_alpha"}

no_compression_parameter_provided(q_config) ==
    \A k \in compression_parameters : Get(q_config, k) = None

no_quantization_parameter_provided(q_config) ==
    \A k \in quantization_parameters : Get(q_config, k) = None

\* optimum.intel's _DEFAULT_4BIT_CONFIG
DEFAULT_4BIT_CONFIG ==
    [bits |-> 4, ratio |-> "1.0", sym |-> "False", group_size |-> "128", all_layers |-> None]

\* Python's  a or b
Or(a, b) == IF Truthy(a) THEN a ELSE b

prep_wc_config(quant_cfg, default_cfg) ==
    LET is_int8 == Get(quant_cfg, "weight_format") = "int8" IN
    [bits |-> IF is_int8 THEN 8 ELSE 4,
     ratio |-> IF is_int8 THEN "1.0" ELSE Or(Get(quant_cfg, "ratio"), Get(default_cfg, "ratio")),
     sym |-> GetD(quant_cfg, "sym", "False"),
     group_size |-> IF is_int8 THEN "-1" ELSE Get(quant_cfg, "group_size"),
     all_layers |-> IF is_int8 THEN None ELSE GetD(quant_cfg, "all_layers", "False"),
     dataset |-> Get(quant_cfg, "dataset"),
     num_samples |-> Get(quant_cfg, "num_samples"),
     quant_method |-> IF Truthy(GetD(quant_cfg, "awq", "False")) THEN "awq" ELSE "default",
     sensitivity_metric |-> Get(quant_cfg, "sensitivity_metric"),
     scale_estimation |-> GetD(quant_cfg, "scale_estimation", None),
     gptq |-> GetD(quant_cfg, "gptq", None),
     lora_correction |-> GetD(quant_cfg, "lora_correction", None),
     dtype |-> Get(quant_cfg, "weight_format"),
     backup_precision |-> Get(quant_cfg, "backup_precision")]

prep_q_config(quant_cfg) ==
    [dtype |-> Get(quant_cfg, "quant_mode"),
     bits |-> 8,
     sym |-> GetD(quant_cfg, "sym", "False"),
     dataset |-> Get(quant_cfg, "dataset"),
     num_samples |-> Get(quant_cfg, "num_samples"),
     smooth_quant_alpha |-> Get(quant_cfg, "smooth_quant_alpha"),
     trust_remote_code |-> GetD(quant_cfg, "trust_remote_code", "False")]

\* ------------------------------------------------------------- quantization path

\* the cast-only test with fp32 left out
cast_only_formats_fp16 == {"fp16"}

cast_only_formats == {"fp16", "fp32"}

\* the list of mixed modes with its last entry left out
mixed_quant_modes_short == {"nf4_f8e4m3", "nf4_f8e5m2", "int4_f8e4m3"}

mixed_quant_modes == {"nf4_f8e4m3", "nf4_f8e5m2", "int4_f8e4m3", "int4_f8e5m2"}

\* str.split("_") of a quant mode: the text before and after the separator
Split(mode) ==
    CASE mode = "nf4_f8e4m3" -> <<"nf4", "f8e4m3">>
      [] mode = "nf4_f8e5m2" -> <<"nf4", "f8e5m2">>
      [] mode = "int4_f8e4m3" -> <<"int4", "f8e4m3">>
      [] mode = "int4_f8e5m2" -> <<"int4", "f8e5m2">>
      [] OTHER -> <<mode>>

\* ov_config = None
NoOVConfig ==
    [none |-> TRUE, dtype |-> None, qnone |-> TRUE, quantization_config |-> EmptyDict,
     branch |-> "plain"]

\* OVConfig(dtype=...): no quantization config
CastOVConfig(dtype) ==
    [none |-> FALSE, dtype |-> dtype, qnone |-> TRUE, quantization_config |-> EmptyDict,
     branch |-> "cast"]

\* OVConfig(quantization_config=...); branch records which lines built the config
QuantOVConfig(quant_config, branch) ==
    [none |-> FALSE, dtype |-> None, qnone |-> FALSE, quantization_config |-> quant_config,
     branch |-> branch]

Selected(c) == [error |-> None, ov_config |-> c]

Raised(e) == [error |-> e, ov_config |-> NoOVConfig]

\* quant_config["trust_remote_code"] = ov_quant_config.get("trust_remote_code", False)
\* when the weight-compression config names a dataset
WithTrustRemoteCode(quant_config, q) ==
    IF Get(quant_config, "dataset") # None
    THEN ("trust_remote_code" :> GetD(q, "trust_remote_code", "False")) @@ quant_config
    ELSE quant_config

\* the weight-only branch: get_default_int4_config's result (default_int4_config, chosen
\* by the library for the model) or the config prep_wc_config builds
weight_only_config(q, default_int4_config) ==
    IF no_compression_parameter_provided(q) /\ Get(q, "weight_format") = "int4"
    THEN QuantOVConfig(WithTrustRemoteCode(default_int4_config, q), "weight_only_default")
    ELSE QuantOVConfig(WithTrustRemoteCode(prep_wc_config(q, DEFAULT_4BIT_CONFIG), q),
                       "weight_only")

\* the branch with quant_mode set and weight_format unset.  args is self.args: the pass
\* reads num_samples, dataset and trust_remote_code from it in the mixed branch, and the
\* read raises AttributeError when the pass object has no such attribute
activation_quant_config(q, lib, args) ==
    IF Get(q, "dataset") = None THEN Raised("ValueError: dataset is required")
    ELSE IF Get(q, "quant_mode") \in mixed_quant_modes
    THEN IF lib = "diffusers" THEN Raised("NotImplementedError: mixed precision for diffusers")
         ELSE IF ~args.present THEN Raised("AttributeError: args")
         ELSE LET sp == Split(Get(q, "quant_mode"))
                  wc_config == [prep_wc_config(q, DEFAULT_4BIT_CONFIG) EXCEPT !.dtype = sp[1]]
                  q_config == [prep_q_config(q) EXCEPT !.dtype = sp[2]]
              IN Selected(QuantOVConfig(
                     [weight_quantization_config |-> wc_config,
                      full_quantization_config |-> q_config,
                      num_samples |-> args.num_samples,
                      dataset |-> args.dataset,
                      trust_remote_code |-> args.trust_remote_code], "mixed"))
    ELSE Selected(QuantOVConfig(prep_q_config(q), "full"))

\* lines 173-233 of _run_for_config: the ov_config, or the error raised
select_ov_config(oq, lib, args, default_int4_config) ==
    IF TruthyDict(oq)
    THEN LET q == oq.d IN
         IF Get(q, "weight_format") = None /\ Get(q, "quant_mode") = None
         THEN IF ~no_compression_parameter_provided(q)
              THEN Raised("ValueError: weight format is not specified")
              ELSE IF no_quantization_parameter_provided(q)
              THEN Raised("ValueError: quant mode is not specified")
              ELSE Selected(NoOVConfig)
         ELSE IF Get(q, "weight_format") \in cast_only_formats
         THEN Selected(CastOVConfig(q["weight_format"]))
         ELSE IF Get(q, "weight_format") # None
         THEN Selected(weight_only_config(q, default_int4_config))
         ELSE activation_quant_config(q, lib, args)
    ELSE Selected(NoOVConfig)

\* ------------------------------------------------------------- export strategy

\* quant_config = ov_config.quantization_config if ov_config else None
QuantConfigIsNone(oc) == oc.none \/ oc.qnone

\* quantize_with_dataset
quantize_with_dataset(oc) ==
    ~QuantConfigIsNone(oc) /\ Get(oc.quantization_config, "dataset") # None

\* the diffusers pipeline classes the pass knows, and the optimum.intel class of each
diffusers_classes ==
    [LatentConsistencyModelPipeline |-> "OVLatentConsistencyModelPipeline",
     StableDiffusionXLPipeline |-> "OVStableDiffusionXLPipeline",
     StableDiffusionPipeline |-> "OVStableDiffusionPipeline",
     StableDiffusion3Pipeline |-> "OVStableDiffusion3Pipeline",
     FluxPipeline |-> "OVFluxPipeline",
     SanaPipeline |-> "OVSanaPipeline"]

\* the test of the task as an equality instead of a prefix test
IsTextGeneration(task) == task = "text-generation"

\* task.startswith("text-generation")
StartsWithTextGeneration(task) == task \in {"text-generation", "text-generation-with-past"}

\* "automatic-speech-recognition" in task
ContainsASR(task) ==
    task \in {"automatic-speech-recognition", "automatic-speech-recognition-with-past"}

NoStrategy == [kind |-> "none", model_cls |-> None]

\* lines 240-330: the strategy chosen, or the error raised before anything is exported
select_strategy(lib, oc, task, class_name) ==
    IF lib = "diffusers" /\ quantize_with_dataset(oc)
    THEN IF class_name \in DOMAIN diffusers_classes
         THEN [kind |-> "diffusers_pipeline", model_cls |-> diffusers_classes[class_name]]
         ELSE [kind |-> "NotImplementedError: class", model_cls |-> None]
    ELSE IF \/ (quantize_with_dataset(oc)
                /\ (StartsWithTextGeneration(task) \/ ContainsASR(task)))
            \/ (task = "image-text-to-text" /\ ~QuantConfigIsNone(oc))
    THEN [kind |-> "model_class",
          model_cls |-> IF StartsWithTextGeneration(task) THEN "OVModelForCausalLM"
                        ELSE IF task = "image-text-to-text" THEN "OVModelForVisualCausalLM"
                        ELSE "OVModelForSpeechSeq2Seq"]
    ELSE [kind |-> "main_export", model_cls |-> None]

\* ------------------------------------------------------------- packaging

output_model_path == "output_model_path"

Range(s) == {s[i] : i \in 1..Len(s)}

\* SelectSeq with a predicate on the element
RECURSIVE Stems(_)
Stems(listing) ==
    IF listing = <<>> THEN <<>>
    ELSE IF Head(listing).suffix = ".xml"
         THEN <<Head(listing).stem>> \o Stems(Tail(listing))
         ELSE Stems(Tail(listing))

\* the listing without the test of the suffix
exported_models_any_suffix(listing) == [i \in 1..Len(listing) |-> listing[i].stem]

\* [name.stem for name in Path(output_model_path).iterdir() if name.suffix == ".xml"],
\* listing being the order in which iterdir yields the directory's entries
exported_models(listing) == Stems(listing)

\* any(...) in place of all(...)
any_exported(components, exported) == \E i \in 1..Len(components) : components[i] \in Range(exported)

\* all(component in exported_models for component in config.components)
all_exported(components, exported) == \A i \in 1..Len(components) : components[i] \in Range(exported)

NoResult ==
    [kind |-> "none", error |-> None, model_path |-> None,
     component_names |-> <<>>, component_paths |-> <<>>,
     requested |-> <<>>, exported |-> <<>>]

Raise(e) == [NoResult EXCEPT !.kind = "error", !.error = e]

\* the comparison of the length inverted
is_single_inverted(components) == Len(components) # 1

\* components is not None and len(components) == 1
is_single(components) == Len(components) = 1

\* config['components'] in the assertion's message: the pass config answers the
\* subscript with the option's value
config_getitem(c) == IF c.none THEN <<>> ELSE c.l

\* lines 332-360: the handler returned, or the assertion error
package(c, listing) ==
    LET exported == exported_models(listing)
        requested == IF c.none THEN <<>> ELSE c.l
        components == IF Len(requested) > 0 THEN requested ELSE exported
    IN IF Len(requested) > 0 /\ ~all_exported(requested, exported)
       THEN [NoResult EXCEPT !.kind = "error", !.error = "AssertionError",
                             !.requested = config_getitem(c), !.exported = exported]
       ELSE IF is_single(components)
       THEN [NoResult EXCEPT !.kind = "single", !.model_path = output_model_path]
       ELSE [NoResult EXCEPT !.kind = "composite",
                             !.component_names = components,
                             !.component_paths = [i \in 1..Len(components) |-> output_model_path]]

\* ------------------------------------------------------------- the input set

\* the values a key of ov_quant_config takes in the input set
QuantValues(k) ==
    CASE k = "weight_format" -> {None, "fp16", "fp32", "int8", "int4", "mxfp4", "nf4"}
      [] k = "quant_mode" ->
            {None, "int8", "f8e4m3", "f8e5m2",
             "nf4_f8e4m3", "nf4_f8e5m2", "int4_f8e4m3", "int4_f8e5m2"}
      [] k = "ratio" -> {"0.0", "0.8"}
      [] k = "group_size" -> {"64"}
      [] k = "sym" -> {None, "True", "False"}
      [] k = "dataset" -> {None, "wikitext2"}
      [] k = "num_samples" -> {"128"}
      [] k = "backup_precision" -> {None, "int8_sym"}
      [] k = "sensitivity_metric" -> {"max_activation_variance"}
      [] k = "smooth_quant_alpha" -> {"0.5"}
      [] OTHER -> {"True"}

QuantKeys ==
    compression_parameters \cup quantization_parameters
        \cup {"weight_format", "quant_mode", "trust_remote_code"}

\* the dicts with at most n of the keys K, each key with one of its values
RECURSIVE Dicts(_, _)
Dicts(K, n) ==
    IF n = 0 \/ K = {} THEN {EmptyDict}
    ELSE LET k == CHOOSE x \in K : TRUE
         IN Dicts(K \ {k}, n)
                \cup {(k :> v) @@ d : d \in Dicts(K \ {k}, n - 1), v \in QuantValues(k)}

QuantConfigs == {NoDict} \cup {SomeDict(d) : d \in Dicts(QuantKeys, MaxKeys)}

\* the values of the three enum keys of ov_quant_config the validator reads,
\* an unknown value among them
EnumValues(k) ==
    CASE k = "weight_format" -> allowed_weight_formats \cup {None, "int2"}
      [] k = "quant_mode" -> allowed_quant_modes \cup {None, "int16"}
      [] k = "backup_precision" -> allowed_backup_precisions \cup {None, "fp8"}
      [] k = "library" -> allowed_libraries \cup {None, "onnx"}
      [] k = "framework" -> allowed_frameworks \cup {None, "flax"}

RECURSIVE EnumDicts(_)
EnumDicts(K) ==
    IF K = {} THEN {EmptyDict}
    ELSE LET k == CHOOSE x \in K : TRUE
         IN EnumDicts(K \ {k})
                \cup {(k :> v) @@ d : d \in EnumDicts(K \ {k}), v \in EnumValues(k)}

OptionalDicts(ds) == {NoDict} \cup {SomeDict(d) : d \in ds}

File(stem, suffix) == [stem |-> stem, suffix |-> suffix]

\* the files an export may leave in the output directory
FileUniverse ==
    {File("decoder_model", ".xml"), File("decoder_with_past_model", ".xml"),
     File("decoder_model", ".bin"), File("config", ".json")}

\* the orders in which iterdir may yield the files of a directory: every order
Listings(files) ==
    {l \in [1..Cardinality(files) -> files] : \A i, j \in 1..Cardinality(files) : l[i] = l[j] => i = j}

AllListings == UNION {Listings(fs) : fs \in SUBSET FileUniverse}

ComponentNames == {"decoder_model", "decoder_with_past_model", "encoder_model"}

NoComponents == [none |-> TRUE, l |-> <<>>]

ComponentLists ==
    {NoComponents}
        \cup UNION {{[none |-> FALSE, l |-> l] : l \in [1..n -> ComponentNames]} : n \in 0..MaxComponents}

Tasks ==
    {"text-generation", "text-generation-with-past", "image-text-to-text",
     "automatic-speech-recognition", "feature-extraction", "text-to-image"}

ClassNames == DOMAIN diffusers_classes \cup {"PixArtAlphaPipeline"}

BaseListing == <<File("decoder_model", ".xml"), File("decoder_model", ".bin")>>

BaseEnv ==
    [inferred_library |-> "transformers", task |-> "text-generation",
     class_name |-> "StableDiffusionPipeline", listing |-> BaseListing]

BaseConfig == [components |-> NoComponents, extra_args |-> NoDict, ov_quant_config |-> NoDict]

wikitext == "dataset" :> "wikitext2"

\* the quantization configs of the strategy slice: one of each path
StrategyQuantConfigs ==
    {NoDict, SomeDict("weight_format" :> "fp16"), SomeDict("weight_format" :> "int8"),
     SomeDict(("weight_format" :> "int4") @@ wikitext),
     SomeDict(("quant_mode" :> "int8") @@ wikitext),
     SomeDict(("quant_mode" :> "nf4_f8e4m3") @@ wikitext)}

\* The input set is the union of four slices, each varying one part of the input with
\* the rest at a base value:
\*   the enum fields of extra_args and ov_quant_config (validate_config),
\*   ov_quant_config and the library (the quantization path),
\*   the library, the task and the pipeline class (the export strategy),
\*   the exported files, their listing order and components (the packaging).
InitValidate ==
    /\ config \in {[BaseConfig EXCEPT !.extra_args = e, !.ov_quant_config = q] :
                      e \in OptionalDicts(EnumDicts({"library", "framework"})),
                      q \in OptionalDicts(EnumDicts({"weight_format", "quant_mode", "backup_precision"}))}
    /\ env = BaseEnv

InitQuant ==
    /\ config \in {[BaseConfig EXCEPT !.extra_args = e, !.ov_quant_config = q] :
                      e \in {NoDict, SomeDict("library" :> "diffusers")},
                      q \in QuantConfigs}
    /\ env \in {[BaseEnv EXCEPT !.inferred_library = l] :
                   l \in {"transformers", "diffusers", "sentence_transformers"}}

InitStrategy ==
    /\ config \in {[BaseConfig EXCEPT !.ov_quant_config = q] : q \in StrategyQuantConfigs}
    /\ env \in {[BaseEnv EXCEPT !.inferred_library = l, !.task = t, !.class_name = cn] :
                   l \in {"transformers", "diffusers"}, t \in Tasks, cn \in ClassNames}

InitPackage ==
    /\ config \in {[BaseConfig EXCEPT !.components = c] : c \in ComponentLists}
    /\ env \in {[BaseEnv EXCEPT !.listing = l] : l \in AllListings}

Init ==
    /\ InitValidate \/ InitQuant \/ InitStrategy \/ InitPackage
    /\ pc = "start"
    /\ lib_name = None
    /\ ov_config = NoOVConfig
    /\ strategy = NoStrategy
    /\ outdir = {}
    /\ result = NoResult

\* ------------------------------------------------------------- actions

\* validate_config(config, accelerator_spec), the base class's validation passing
ValidateConfig ==
    /\ pc = "start"
    /\ pc' = "validated"
    /\ result' = [NoResult EXCEPT !.kind = IF validate_config(config) THEN "True" ELSE "False"]
    /\ UNCHANGED <<config, env, lib_name, ov_config, strategy, outdir>>

\* _run_for_config, lines 149-171: lib_name from extra_args["library"], or inferred
\* from the model, sentence_transformers read as transformers
\* (the device and trust_remote_code entries added to extra_args at lines 150-157 are
\* only handed on to the export function and are not part of the state)
resolve_library(extra_args, inferred) ==
    IF (IF TruthyDict(extra_args) THEN Get(extra_args.d, "library") ELSE None) = None
    THEN IF inferred = "sentence_transformers" THEN "transformers" ELSE inferred
    ELSE extra_args.d["library"]

ResolveLibrary ==
    /\ pc = "start"
    /\ lib_name' = resolve_library(config.extra_args, env.inferred_library)
    /\ pc' = "resolved"
    /\ UNCHANGED <<config, env, ov_config, strategy, outdir, result>>

\* what self.args may be: absent, or an object with the three attributes read
ArgsChoices ==
    {[present |-> FALSE, num_samples |-> None, dataset |-> None, trust_remote_code |-> None],
     [present |-> TRUE, num_samples |-> None, dataset |-> None, trust_remote_code |-> "False"],
     [present |-> TRUE, num_samples |-> "128", dataset |-> "wikitext2", trust_remote_code |-> "False"]}

\* what get_default_int4_config may return: the default 4-bit config, or a
\* model-specific one that names a dataset
DefaultInt4Choices == {DEFAULT_4BIT_CONFIG, ("dataset" :> "wikitext2") @@ DEFAULT_4BIT_CONFIG}

\* _run_for_config, lines 173-233
SelectQuantConfig ==
    /\ pc = "resolved"
    /\ \E args \in ArgsChoices, default_int4_config \in DefaultInt4Choices :
          LET sel == select_ov_config(config.ov_quant_config, lib_name, args, default_int4_config)
          IN IF sel.error = None
             THEN /\ ov_config' = sel.ov_config
                  /\ pc' = "selected"
                  /\ result' = result
             ELSE /\ ov_config' = ov_config
                  /\ pc' = "done"
                  /\ result' = Raise(sel.error)
    /\ UNCHANGED <<config, env, lib_name, strategy, outdir>>

\* _run_for_config, lines 235-330: the strategy runs and leaves its files in the
\* output directory, or the diffusers class is unknown and nothing is exported
RunExport ==
    /\ pc = "selected"
    /\ LET st == select_strategy(lib_name, ov_config, env.task, env.class_name)
       IN IF st.kind \in {"diffusers_pipeline", "model_class", "main_export"}
          THEN /\ strategy' = st
               /\ outdir' = Range(env.listing)
               /\ pc' = "exported"
               /\ result' = result
          ELSE /\ strategy' = strategy
               /\ outdir' = outdir
               /\ pc' = "done"
               /\ result' = Raise(st.kind)
    /\ UNCHANGED <<config, env, lib_name, ov_config>>

\* _run_for_config, lines 332-360
PackageArtifacts ==
    /\ pc = "exported"
    /\ result' = package(config.components, env.listing)
    /\ pc' = "done"
    /\ UNCHANGED <<config, env, lib_name, ov_config, strategy, outdir>>

Next ==
    \/ ValidateConfig
    \/ ResolveLibrary
    \/ SelectQuantConfig
    \/ RunExport
    \/ PackageArtifacts

Spec == Init /\ [][Next]_vars

\* ------------------------------------------------------------- properties

\* the call is past lines 173-233 (the quantization path is chosen, or its error raised)
PastSelect == pc \in {"selected", "exported", "done"}

\* an export strategy ran
ExportRan == strategy.kind # "none"

\* nothing was exported, instantiated or written
NothingExported == strategy = NoStrategy /\ outdir = {}

\* the base names of the .xml files of a directory
XmlStems(dir) == {f.stem : f \in {g \in dir : g.suffix = ".xml"}}

\* the quantization dict, {} when ov_quant_config is None
Q == config.ov_quant_config.d

ComponentsSet == ~config.components.none /\ Len(config.components.l) > 0

\* a field is unset (no dict, key absent, or None) or holds one of the values
FieldOK(o, k, values) == o.none \/ k \notin DOMAIN o.d \/ o.d[k] = "None" \/ o.d[k] \in values

AllFieldsOK ==
    /\ FieldOK(config.extra_args, "library",
               {"transformers", "diffusers", "timm", "sentence_transformers", "open_clip"})
    /\ FieldOK(config.extra_args, "framework", {"pt", "tf"})
    /\ FieldOK(config.ov_quant_config, "weight_format",
               {"fp32", "fp16", "int8", "int4", "mxfp4", "nf4"})
    /\ FieldOK(config.ov_quant_config, "quant_mode",
               {"int8", "f8e4m3", "f8e5m2", "nf4_f8e4m3", "nf4_f8e5m2", "int4_f8e4m3",
                "int4_f8e5m2"})
    /\ FieldOK(config.ov_quant_config, "backup_precision", {"none", "int8_sym", "int8_asym"})

\* C1: validate_config returns true if and only if each of the five enum fields that is
\* provided has a value in its allow-list; an absent key or a key set to None never
\* rejects, one disallowed value rejects whatever the other fields hold.
C1_ValidateIffAllowed == pc = "validated" => (result.kind = "True" <=> AllFieldsOK)

\* C1 witness: a rejection caused by backup_precision alone, library and weight_format
\* holding allowed values and quant_mode set to None
C1_Witness ==
    /\ pc = "validated" /\ result.kind = "False"
    /\ Get(config.ov_quant_config.d, "backup_precision") = "fp8"
    /\ Get(config.ov_quant_config.d, "weight_format") = "nf4"
    /\ "quant_mode" \in DOMAIN config.ov_quant_config.d
    /\ Get(config.ov_quant_config.d, "quant_mode") = None
    /\ Get(config.extra_args.d, "library") = "open_clip"

MixedModeForDiffusers ==
    /\ PastSelect
    /\ TruthyDict(config.ov_quant_config)
    /\ Get(Q, "quant_mode") \in {"nf4_f8e4m3", "nf4_f8e5m2", "int4_f8e4m3", "int4_f8e5m2"}
    /\ Get(Q, "weight_format") = None
    /\ lib_name = "diffusers"

\* C2 as stated: a mixed int4/nf4 + float8 quant_mode with weight_format unset and the
\* library diffusers fails with NotImplementedError before anything is exported,
\* {quant_mode: "nf4_f8e4m3"} included.
C2_Original ==
    MixedModeForDiffusers =>
        /\ result.kind = "error"
        /\ result.error = "NotImplementedError: mixed precision for diffusers"
        /\ NothingExported

\* C2 amended: with a dataset given the call fails with NotImplementedError before
\* anything is exported; with no dataset it fails earlier, with the ValueError that a
\* dataset is required, also before anything is exported.
C2_MixedDiffusersFails ==
    MixedModeForDiffusers =>
        /\ pc = "done"
        /\ result.kind = "error"
        /\ result.error = IF Get(Q, "dataset") # None
                          THEN "NotImplementedError: mixed precision for diffusers"
                          ELSE "ValueError: dataset is required"
        /\ NothingExported

\* C2 witness: the NotImplementedError, the library being inferred from the model
C2_Witness ==
    /\ MixedModeForDiffusers
    /\ Get(Q, "quant_mode") = "int4_f8e5m2"
    /\ Get(Q, "dataset") = "wikitext2"
    /\ config.extra_args.none
    /\ result.error = "NotImplementedError: mixed precision for diffusers"

NoSelector ==
    /\ PastSelect
    /\ TruthyDict(config.ov_quant_config)
    /\ Get(Q, "weight_format") = None
    /\ Get(Q, "quant_mode") = None

ConfigurationErrors ==
    {"ValueError: weight format is not specified", "ValueError: quant mode is not specified"}

\* C3: with neither weight_format nor quant_mode set, any compression-shaping parameter
\* raises the configuration error about the missing weight_format, and any
\* quantization-shaping parameter raises a configuration error, before any export.
C3_AmbiguousIntentFatal ==
    NoSelector =>
        /\ (\E k \in {"ratio", "group_size", "sym", "all_layers", "dataset", "num_samples",
                      "awq", "scale_estimation", "gptq", "lora_correction",
                      "sensitivity_metric", "backup_precision"} : Get(Q, k) # None)
             => /\ result.error = "ValueError: weight format is not specified"
                /\ NothingExported
        /\ (\E k \in {"sym", "dataset", "num_samples", "smooth_quant_alpha"} : Get(Q, k) # None)
             => /\ result.error \in ConfigurationErrors
                /\ NothingExported

\* no quantization is requested: ov_quant_config is unset, empty, or holds neither
\* selector nor any shaping parameter
NoQuantizationRequested ==
    \/ ~TruthyDict(config.ov_quant_config)
    \/ \A k \in {"weight_format", "quant_mode", "ratio", "group_size", "sym", "all_layers",
                 "dataset", "num_samples", "awq", "scale_estimation", "gptq",
                 "lora_correction", "sensitivity_metric", "backup_precision",
                 "smooth_quant_alpha"} : Get(Q, k) = None

\* C4: when no quantization is requested the call raises no configuration error and
\* goes on to a plain export, the quantization config being None.
C4_PlainExport ==
    (PastSelect /\ NoQuantizationRequested) =>
        /\ result.error \notin ConfigurationErrors
        /\ QuantConfigIsNone(ov_config)
        /\ ov_config.none
        /\ ExportRan => strategy.kind = "main_export"

\* C5: the config prep_wc_config builds has bits 8, ratio 1.0 and group_size -1 for
\* weight_format int8 whatever ratio and group_size are given; for any other format
\* bits is 4, group_size is the user's and ratio is the user's, the default config's
\* ratio when the user gave none.
C5_WeightCompressionConfig ==
    (PastSelect /\ ov_config.branch = "weight_only") =>
        LET wc == ov_config.quantization_config IN
        IF Get(Q, "weight_format") = "int8"
        THEN wc.bits = 8 /\ wc.ratio = "1.0" /\ wc.group_size = "-1"
        ELSE /\ wc.bits = 4
             /\ wc.group_size = Get(Q, "group_size")
             /\ wc.ratio = IF Get(Q, "ratio") = None THEN "1.0" ELSE Q["ratio"]

\* the position of a name in a sequence of names
IndexOf(names, n) == CHOOSE i \in 1..Len(names) : names[i] = n

\* the names come in the order in which the listing yields their .xml files
InListingOrder(names, listing) ==
    \A a, b \in 1..Len(listing) :
        (a < b /\ listing[a].suffix = ".xml" /\ listing[b].suffix = ".xml")
            => IndexOf(names, listing[a].stem) < IndexOf(names, listing[b].stem)

ComponentsUnset == ~ComponentsSet

\* C6 as stated: with components unset and the files decoder_model.xml and
\* decoder_with_past_model.xml exported, the result is a composite whose entries are
\* decoder_model then decoder_with_past_model, in that order, on every run.
C6_Original ==
    (pc = "done" /\ ExportRan /\ ComponentsUnset
        /\ XmlStems(outdir) = {"decoder_model", "decoder_with_past_model"})
    => /\ result.kind = "composite"
       /\ result.component_names = <<"decoder_model", "decoder_with_past_model">>

\* C6 amended: with components unset and more than one .xml file exported, the result is
\* a composite with exactly one entry per .xml file, named by the file's base name, every
\* entry referencing the output directory, the entries in the order in which the
\* directory listing yields the files; that order is not fixed, so decoder_model may
\* come before or after decoder_with_past_model.
C6_CompositePerFile ==
    (pc = "done" /\ ExportRan /\ ComponentsUnset /\ Cardinality(XmlStems(outdir)) > 1)
    => /\ result.kind = "composite"
       /\ Len(result.component_names) = Cardinality(XmlStems(outdir))
       /\ Range(result.component_names) = XmlStems(outdir)
       /\ InListingOrder(result.component_names, env.listing)
       /\ Len(result.component_paths) = Len(result.component_names)
       /\ \A i \in 1..Len(result.component_paths) : result.component_paths[i] = output_model_path

\* C6 witness: the composite of the two decoder files, other files lying between them in
\* the directory, in the order the claim does not expect
C6_Witness ==
    /\ pc = "done" /\ ExportRan /\ ComponentsUnset
    /\ Cardinality(outdir) = 4
    /\ result.kind = "composite"
    /\ result.component_names = <<"decoder_with_past_model", "decoder_model">>

\* the components option names each component at most once
NoRepeatedComponent ==
    \A i, j \in 1..Len(config.components.l) :
        config.components.l[i] = config.components.l[j] => i = j

\* C7 as stated: exactly one .xml file exported gives a single handler on the output
\* directory for every value of components under which the call does not fail.
C7_Original ==
    (pc = "done" /\ ExportRan /\ Cardinality(XmlStems(outdir)) = 1 /\ result.kind # "error")
    => /\ result.kind = "single"
       /\ result.model_path = output_model_path

\* C7 amended: exactly one .xml file exported gives a single handler on the output
\* directory for every value of components that does not fail and names no component
\* twice (unset, empty, or the file's name once); a components list that repeats the
\* file's name gives a composite with one entry per listed name.
C7_SingleHandler ==
    (pc = "done" /\ ExportRan /\ Cardinality(XmlStems(outdir)) = 1 /\ result.kind # "error")
    => IF NoRepeatedComponent
       THEN /\ result.kind = "single"
            /\ result.model_path = output_model_path
            /\ result.component_names = <<>>
       ELSE /\ result.kind = "composite"
            /\ result.component_names = config.components.l

\* C7 witness: a single handler, components naming the one exported file
C7_Witness ==
    /\ pc = "done" /\ ExportRan
    /\ XmlStems(outdir) = {"decoder_with_past_model"}
    /\ config.components.l = <<"decoder_with_past_model">>
    /\ result.kind = "single"

\* C8: when components names a component whose .xml file is not in the output directory
\* after the export, the call fails with an assertion error that reports the requested
\* and the exported names, and returns no handler, even if other named components exist.
C8_MissingComponentFails ==
    (pc = "done" /\ ExportRan /\ ComponentsSet
        /\ \E i \in 1..Len(config.components.l) : config.components.l[i] \notin XmlStems(outdir))
    => /\ result.kind = "error"
       /\ result.error = "AssertionError"
       /\ result.requested = config.components.l
       /\ Range(result.exported) = XmlStems(outdir)
       /\ result.model_path = None
       /\ result.component_names = <<>>

\* C8 witness: one requested component is exported, the other is not
C8_Witness ==
    /\ pc = "done" /\ ExportRan
    /\ config.components.l = <<"decoder_model", "encoder_model">>
    /\ XmlStems(outdir) = {"decoder_model", "decoder_with_past_model"}
    /\ result.error = "AssertionError"

\* C9: the call returns a handler only if at least one .xml file is in the output
\* directory after the export; with no such file no handler is returned.
C9_HandlerNeedsXml ==
    (pc = "done" /\ result.kind \in {"single", "composite"})
    => \E f \in outdir : f.suffix = ".xml"

WeightOnlyBranches == {"weight_only", "weight_only_default"}

ActivationBranches == {"full", "mixed"}

Accepted == TruthyDict(config.ov_quant_config) /\ validate_config(config)

\* C10 as stated: for a non-empty ov_quant_config the validator accepts, a weight-only
\* config is built only for weight_format int4 or int8 with quant_mode unset, a
\* cast-only config only for fp16/fp32, a full or mixed config only for quant_mode set
\* with weight_format unset and a dataset given.
C10_Original ==
    (PastSelect /\ Accepted) =>
        /\ ov_config.branch \in WeightOnlyBranches
             => Get(Q, "weight_format") \in {"int4", "int8"} /\ Get(Q, "quant_mode") = None
        /\ ov_config.branch = "cast" => Get(Q, "weight_format") \in {"fp16", "fp32"}
        /\ ov_config.branch \in ActivationBranches
             => /\ Get(Q, "quant_mode") # None
                /\ Get(Q, "weight_format") = None
                /\ Get(Q, "dataset") # None

\* the errors lines 173-233 raise
SelectionErrors ==
    ConfigurationErrors
        \cup {"ValueError: dataset is required",
              "NotImplementedError: mixed precision for diffusers", "AttributeError: args"}

\* the path the two selectors name
PathOf(q) ==
    IF Get(q, "weight_format") \in {"fp16", "fp32"} THEN {"cast"}
    ELSE IF Get(q, "weight_format") # None THEN WeightOnlyBranches
    ELSE IF Get(q, "quant_mode") # None THEN ActivationBranches
    ELSE {"plain"}

\* C10 amended: the paths are mutually exclusive and selected by weight_format first: a
\* cast-only config is built exactly when weight_format is fp16/fp32, a weight-only
\* config exactly when weight_format is any other set format (int4, int8, mxfp4, nf4),
\* in both cases whether or not quant_mode is also set; a full or mixed config only
\* when quant_mode is set and weight_format is unset, a mixed one exactly for the four
\* int4/nf4 + float8 modes, and then a missing dataset is a fatal configuration error.
C10_PathSelection ==
    (PastSelect /\ Accepted) =>
        IF result.error \in SelectionErrors
        THEN /\ ov_config.none
             /\ PathOf(Q) \in {ActivationBranches, {"plain"}}
             /\ (PathOf(Q) = ActivationBranches /\ Get(Q, "dataset") = None)
                  => result.error = "ValueError: dataset is required"
        ELSE /\ ov_config.branch \in PathOf(Q)
             /\ ov_config.branch \in ActivationBranches => Get(Q, "dataset") # None
             /\ ov_config.branch = "mixed"
                  <=> (Get(Q, "weight_format") = None
                       /\ Get(Q, "quant_mode") \in {"nf4_f8e4m3", "nf4_f8e5m2",
                                                    "int4_f8e4m3", "int4_f8e5m2"})
             /\ ov_config.branch = "cast" => ov_config.qnone /\ ov_config.dtype = Q["weight_format"]
             /\ ov_config.branch = "plain" <=> ov_config.none

\* C10 witness: a weight-only config built although quant_mode is set
C10_Witness ==
    /\ pc = "selected"
    /\ Get(Q, "weight_format") = "mxfp4"
    /\ Get(Q, "quant_mode") = "f8e4m3"
    /\ ov_config.branch = "weight_only"
    /\ ov_config.quantization_config.bits = 4

\* the quantization config handed to the strategy carries a dataset
DatasetQuantization ==
    /\ ~ov_config.none /\ ~ov_config.qnone
    /\ "dataset" \in DOMAIN ov_config.quantization_config
    /\ ov_config.quantization_config["dataset"] # None

\* a quantization config exists, with or without a dataset
HasQuantConfig == ov_config.branch \in WeightOnlyBranches \cup ActivationBranches

InstantiationTasks ==
    {"text-generation", "text-generation-with-past", "image-text-to-text",
     "automatic-speech-recognition", "automatic-speech-recognition-with-past"}

Strategies == {"diffusers_pipeline", "model_class", "main_export"}

\* C11 as stated: one of the three strategies runs; the model-class instantiation is
\* chosen only for text-generation, image-text-to-text or speech-recognition tasks whose
\* quantization config carries a dataset; the diffusers pipeline runs when the library
\* is diffusers with dataset quantization; every other case goes to the generic export.
C11_Original ==
    ExportRan =>
        /\ strategy.kind \in Strategies
        /\ strategy.kind = "model_class"
             => env.task \in InstantiationTasks /\ DatasetQuantization
        /\ (lib_name = "diffusers" /\ DatasetQuantization) => strategy.kind = "diffusers_pipeline"
        /\ ~DatasetQuantization => strategy.kind = "main_export"

\* C11 amended: a call that reaches the export runs exactly one of the three strategies
\* (none when an error is raised before, the unknown diffusers pipeline class included);
\* the diffusers pipeline runs exactly when the library is diffusers and the
\* quantization config carries a dataset; otherwise the model-class instantiation runs
\* exactly when the config carries a dataset and the task is text-generation or
\* speech-recognition, or when the task is image-text-to-text and any quantization
\* config exists, with or without a dataset; every other case, no quantization and
\* cast-only fp16/fp32 included, goes to the generic export.
C11_StrategySelection ==
    /\ pc = "exported" => ExportRan
    /\ (pc = "done" /\ result.error = "NotImplementedError: class")
         => /\ ~ExportRan /\ outdir = {}
            /\ lib_name = "diffusers" /\ DatasetQuantization
            /\ env.class_name \notin
                 {"LatentConsistencyModelPipeline", "StableDiffusionXLPipeline",
                  "StableDiffusionPipeline", "StableDiffusion3Pipeline", "FluxPipeline",
                  "SanaPipeline"}
    /\ ExportRan =>
         /\ strategy.kind \in Strategies
         /\ strategy.kind = "diffusers_pipeline" <=> (lib_name = "diffusers" /\ DatasetQuantization)
         /\ strategy.kind = "model_class"
              <=> /\ ~(lib_name = "diffusers" /\ DatasetQuantization)
                  /\ \/ DatasetQuantization
                        /\ env.task \in InstantiationTasks \ {"image-text-to-text"}
                     \/ env.task = "image-text-to-text" /\ HasQuantConfig
         /\ strategy.kind = "model_class"
              => strategy.model_cls =
                   IF env.task \in {"text-generation", "text-generation-with-past"}
                   THEN "OVModelForCausalLM"
                   ELSE IF env.task = "image-text-to-text" THEN "OVModelForVisualCausalLM"
                   ELSE "OVModelForSpeechSeq2Seq"
         /\ ov_config.branch \in {"plain", "cast"} => strategy.kind = "main_export"

\* C11 witness: the visual model class instantiated for a weight-only config with no
\* dataset
C11_Witness ==
    /\ ExportRan
    /\ env.task = "image-text-to-text"
    /\ ov_config.branch = "weight_only"
    /\ ~DatasetQuantization
    /\ strategy.kind = "model_class"
    /\ strategy.model_cls = "OVModelForVisualCausalLM"

====
